---------------------------- MODULE Spec2Model ----------------------------
(***************************************************************************)
(* A model of the wcookie crate: the Set-Cookie parser, the expiry          *)
(* computation and the domain/path/same-site matcher of SetCookie.          *)
(*                                                                          *)
(* Text is a sequence of characters, each a one-character string.  Rust     *)
(* strings are UTF-8: len(), find() and rfind() count bytes while           *)
(* chars().nth() counts characters, so every character carries its UTF-8    *)
(* width.  Option<T> is a sequence of length 0 (None) or 1 (Some).  A call  *)
(* that can fail returns Ok(value), ParseError(..) or Panic.                *)
(***************************************************************************)
EXTENDS Integers, Sequences, FiniteSets, TLC

None == <<>>
Some(x) == <<x>>
is_none(o) == o = <<>>
is_some(o) == o # <<>>
unwrap(o) == o[1]

Max(S) == CHOOSE x \in S : \A y \in S : y <= x
Min(S) == CHOOSE x \in S : \A y \in S : x <= y

(***************************************************************************)
(* Characters and strings                                                   *)
(***************************************************************************)
\* Characters of more than one byte in UTF-8; "é" is U+00E9, two bytes.
MultiByte == {"é"}

len_utf8(c) == IF c \in MultiByte THEN 2 ELSE 1

\* str::len: the length in bytes.
RECURSIVE str_len(_)
str_len(s) == IF s = <<>> THEN 0 ELSE len_utf8(Head(s)) + str_len(Tail(s))

\* The byte offset at which the character at position i (1-based) starts.
byte_offset(s, i) == str_len(SubSeq(s, 1, i - 1))

\* str::starts_with
starts_with(s, p) == Len(p) <= Len(s) /\ SubSeq(s, 1, Len(p)) = p

\* The character positions (1-based) at which p occurs in s.
occurrences(s, p) ==
    {i \in 1..(Len(s) - Len(p) + 1) : SubSeq(s, i, i + Len(p) - 1) = p}

\* str::rfind(&str): the byte index of the last occurrence, if any.
rfind(s, p) ==
    IF occurrences(s, p) = {} THEN None
    ELSE Some(byte_offset(s, Max(occurrences(s, p))))

\* str::find(char): the position (1-based) of the first occurrence, 0 if none.
\* The characters searched for ('=') are one byte wide, so slicing at the
\* byte index found is slicing at this character position.
find(s, c) ==
    IF \E i \in 1..Len(s) : s[i] = c
    THEN Min({i \in 1..Len(s) : s[i] = c})
    ELSE 0

\* Iterator::nth over str::chars: the n-th character (0-based), if any.
chars_nth(s, n) == IF n >= 0 /\ n < Len(s) THEN Some(s[n + 1]) ELSE None

\* char::is_whitespace, over the characters of the model.
White == {" ", "\t"}

RECURSIVE trim_start(_)
trim_start(s) ==
    IF s # <<>> /\ Head(s) \in White THEN trim_start(Tail(s)) ELSE s

RECURSIVE trim_end(_)
trim_end(s) ==
    IF s # <<>> /\ s[Len(s)] \in White
    THEN trim_end(SubSeq(s, 1, Len(s) - 1)) ELSE s

\* str::trim
trim(s) == trim_end(trim_start(s))

UPPER == <<"A","B","C","D","E","F","G","H","I","J","K","L","M",
           "N","O","P","Q","R","S","T","U","V","W","X","Y","Z">>
LOWER == <<"a","b","c","d","e","f","g","h","i","j","k","l","m",
           "n","o","p","q","r","s","t","u","v","w","x","y","z">>

char_to_ascii_lowercase(c) ==
    IF \E i \in 1..26 : UPPER[i] = c
    THEN LOWER[CHOOSE i \in 1..26 : UPPER[i] = c]
    ELSE c

\* str::to_ascii_lowercase
\* to_ascii_lowercase that leaves the letters as they are.
to_ascii_lowercase_off(s) == s

to_ascii_lowercase(s) == [i \in 1..Len(s) |-> char_to_ascii_lowercase(s[i])]

\* str::split(char): the pieces between the separators; never empty.
RECURSIVE split(_, _)
split(s, c) ==
    IF find(s, c) = 0 THEN <<s>>
    ELSE <<SubSeq(s, 1, find(s, c) - 1)>>
         \o split(SubSeq(s, find(s, c) + 1, Len(s)), c)

\* str::strip_prefix
strip_prefix(s, p) ==
    IF starts_with(s, p) THEN Some(SubSeq(s, Len(p) + 1, Len(s))) ELSE None

\* Concatenation of a sequence of strings.
RECURSIVE concat(_)
concat(ss) == IF ss = <<>> THEN <<>> ELSE Head(ss) \o concat(Tail(ss))


(***************************************************************************)
(* Unbounded naturals.  Seconds since the epoch and Max-Age run up to 2^64, *)
(* so they are kept as decimal digit sequences, most significant digit      *)
(* first and without leading zeros (zero is <<0>>).                         *)
(***************************************************************************)
RECURSIVE big_norm(_)
big_norm(a) ==
    IF Len(a) > 1 /\ Head(a) = 0 THEN big_norm(Tail(a)) ELSE a

RECURSIVE big_of(_)
big_of(n) == IF n < 10 THEN <<n>> ELSE big_of(n \div 10) \o <<n % 10>>

big_lt(a, b) ==
    \/ Len(a) < Len(b)
    \/ /\ Len(a) = Len(b)
       /\ \E i \in 1..Len(a) :
             /\ a[i] < b[i]
             /\ \A j \in 1..(i - 1) : a[j] = b[j]

big_le(a, b) == a = b \/ big_lt(a, b)

\* The digit of a at decimal place k (0 is the units).
big_digit(a, k) == IF k < Len(a) THEN a[Len(a) - k] ELSE 0

\* Digits of a + b from place k upwards, given the carry into place k.
RECURSIVE big_add_from(_, _, _, _)
big_add_from(a, b, k, carry) ==
    IF k >= Len(a) /\ k >= Len(b)
    THEN (IF carry = 0 THEN <<>> ELSE <<carry>>)
    ELSE big_add_from(a, b, k + 1,
                      (big_digit(a, k) + big_digit(b, k) + carry) \div 10)
         \o <<(big_digit(a, k) + big_digit(b, k) + carry) % 10>>

big_add(a, b) == big_norm(big_add_from(a, b, 0, 0))

\* Digits of a * m from place k upwards, m a small natural.
RECURSIVE big_mul_from(_, _, _, _)
big_mul_from(a, m, k, carry) ==
    IF k >= Len(a)
    THEN (IF carry = 0 THEN <<>> ELSE big_of(carry))
    ELSE big_mul_from(a, m, k + 1, (big_digit(a, k) * m + carry) \div 10)
         \o <<(big_digit(a, k) * m + carry) % 10>>

big_mul(a, m) == big_norm(big_mul_from(a, m, 0, 0) \o <<>>)

\* u64::MAX = 18446744073709551615
U64_MAX == <<1,8,4,4,6,7,4,4,0,7,3,7,0,9,5,5,1,6,1,5>>
\* i64::MAX = 9223372036854775807, the last second a SystemTime can hold
I64_MAX == <<9,2,2,3,3,7,2,0,3,6,8,5,4,7,7,5,8,0,7>>

(***************************************************************************)
(* Results                                                                  *)
(***************************************************************************)
Ok(v) == [tag |-> "Ok", val |-> v]
\* ParseError::new(msg): the message and the text interpolated into it.
ParseError(msg, arg) == [tag |-> "Err", msg |-> msg, arg |-> arg]
\* The call does not return: an unwrap of None, an arithmetic overflow, a
\* panicking constructor.
Panic == [tag |-> "Panic"]

is_ok(r) == r.tag = "Ok"
is_err(r) == r.tag = "Err"

(***************************************************************************)
(* Calendar: chrono's NaiveDate / DateTime<Utc>, as the record of its       *)
(* fields [year, month, day, hour, min, sec].                               *)
(***************************************************************************)
is_leap_year(y) == (y % 4 = 0 /\ y % 100 # 0) \/ y % 400 = 0

days_in_month(y, m) ==
    IF m = 2 THEN (IF is_leap_year(y) THEN 29 ELSE 28)
    ELSE IF m \in {4, 6, 9, 11} THEN 30 ELSE 31

\* NaiveDate::from_ymd_opt(..).is_some(): the date exists in the calendar.
valid_ymd(y, m, d) == m \in 1..12 /\ d >= 1 /\ d <= days_in_month(y, m)

\* NaiveDate::and_hms_opt(..).is_some()
valid_hms(h, mi, s) == h \in 0..23 /\ mi \in 0..59 /\ s \in 0..59

DateTime(y, m, d, h, mi, s) ==
    [year |-> y, month |-> m, day |-> d, hour |-> h, min |-> mi, sec |-> s]

\* Days from 1970-01-01 to the date (negative before the epoch).
days_from_epoch(date) ==
    LET y   == IF date.month <= 2 THEN date.year - 1 ELSE date.year
        era == y \div 400
        yoe == y - era * 400
        mp  == (date.month + 9) % 12
        doy == (153 * mp + 2) \div 5 + date.day - 1
        doe == yoe * 365 + yoe \div 4 - yoe \div 100 + doy
    IN  era * 146097 + doe - 719468

secs_of_day(date) == date.hour * 3600 + date.min * 60 + date.sec

\* DateTime::timestamp: seconds from the epoch, as a sign and a magnitude.
timestamp(date) ==
    LET days == days_from_epoch(date)
        sod  == secs_of_day(date)
    IN  IF days >= 0
        THEN [neg |-> FALSE,
              mag |-> big_add(big_mul(big_of(days), 86400), big_of(sod))]
        ELSE [neg |-> TRUE,
              mag |-> big_add(big_mul(big_of(-days - 1), 86400),
                              big_of(86400 - sod))]

\* u64::try_from(i64).ok()
u64_try_from(t) == IF t.neg THEN None ELSE Some(t.mag)

(***************************************************************************)
(* The three date grammars.  Each is a regular expression searched for      *)
(* anywhere in the text (Regex::captures is not anchored) and matched at    *)
(* the leftmost position where it fits.  At a given position at most one    *)
(* choice of the alternatives fits, since every optional part is followed   *)
(* by a literal that the longer alternative cannot start with.              *)
(***************************************************************************)
DIGITS == <<"0","1","2","3","4","5","6","7","8","9">>

is_digit(c) == \E i \in 1..10 : DIGITS[i] = c
digit_val(c) == (CHOOSE i \in 1..10 : DIGITS[i] = c) - 1
all_digits(s) == \A i \in 1..Len(s) : is_digit(s[i])

\* str::parse::<u32> of a captured run of digits.
RECURSIVE parse_digits(_)
parse_digits(s) ==
    IF s = <<>> THEN 0
    ELSE parse_digits(SubSeq(s, 1, Len(s) - 1)) * 10 + digit_val(s[Len(s)])

\* The n characters of t from position i; <<>> when t is too short.
slice(t, i, n) == IF i + n - 1 <= Len(t) THEN SubSeq(t, i, i + n - 1) ELSE <<>>

MONTH_NAME == <<<<"J","a","n">>, <<"F","e","b">>, <<"M","a","r">>,
               <<"A","p","r">>, <<"M","a","y">>, <<"J","u","n">>,
               <<"J","u","l">>, <<"A","u","g">>, <<"S","e","p">>,
               <<"O","c","t">>, <<"N","o","v">>, <<"D","e","c">>>>

is_month(s) == \E m \in 1..12 : MONTH_NAME[m] = s
month_number(s) == CHOOSE m \in 1..12 : MONTH_NAME[m] = s

\* (Mon|Tue|Wed|Thu|Fri|Sat|Sun)
WKD == {<<"M","o","n">>, <<"T","u","e">>, <<"W","e","d">>, <<"T","h","u">>,
        <<"F","r","i">>, <<"S","a","t">>, <<"S","u","n">>}

\* (Monday|Tuesday|Wednesday|Thursday|Friday|Saturday|Sunday)
WEEKDAY == {<<"M","o","n","d","a","y">>,
            <<"T","u","e","s","d","a","y">>,
            <<"W","e","d","n","e","s","d","a","y">>,
            <<"T","h","u","r","s","d","a","y">>,
            <<"F","r","i","d","a","y">>,
            <<"S","a","t","u","r","d","a","y">>,
            <<"S","u","n","d","a","y">>}

\* (0[1-9]|[123][0-9])
re_day2(s) ==
    /\ Len(s) = 2
    /\ \/ s[1] = "0" /\ s[2] \in {"1","2","3","4","5","6","7","8","9"}
       \/ s[1] \in {"1","2","3"} /\ is_digit(s[2])

\* ([1-9]|0[1-9]|[123][0-9])
re_day12(s) ==
    \/ Len(s) = 1 /\ s[1] \in {"1","2","3","4","5","6","7","8","9"}
    \/ re_day2(s)

\* ([0-1][0-9]|2[0-3])
re_hour(s) ==
    /\ Len(s) = 2
    /\ \/ s[1] \in {"0","1"} /\ is_digit(s[2])
       \/ s[1] = "2" /\ s[2] \in {"0","1","2","3"}

\* ([0-5][0-9])
re_min(s) ==
    Len(s) = 2 /\ s[1] \in {"0","1","2","3","4","5"} /\ is_digit(s[2])

\* ([0-9]{n})
re_year(s, n) == Len(s) = n /\ all_digits(s)

\* ([0-1][0-9]|2[0-3]):([0-5][0-9]):([0-5][0-9]) at position j
re_time(t, j) ==
    /\ re_hour(slice(t, j, 2))
    /\ slice(t, j + 2, 1) = <<":">>
    /\ re_min(slice(t, j + 3, 2))
    /\ slice(t, j + 5, 1) = <<":">>
    /\ re_min(slice(t, j + 6, 2))

\* DATE_FORMAT_1123 matched at position i.
re_1123_at(t, i) ==
    /\ slice(t, i, 3) \in WKD
    /\ slice(t, i + 3, 2) = <<",", " ">>
    /\ re_day2(slice(t, i + 5, 2))
    /\ slice(t, i + 7, 1) = <<" ">>
    /\ is_month(slice(t, i + 8, 3))
    /\ slice(t, i + 11, 1) = <<" ">>
    /\ re_year(slice(t, i + 12, 4), 4)
    /\ slice(t, i + 16, 1) = <<" ">>
    /\ re_time(t, i + 17)
    /\ slice(t, i + 25, 4) = <<" ", "G", "M", "T">>

\* The captured texts of day, month and year, and of the hour, minute and
\* second of the time at position jtime.
Captures(day, month, year, t, jtime) ==
    [day |-> day, month |-> month, year |-> year,
     hour |-> slice(t, jtime, 2), min |-> slice(t, jtime + 3, 2),
     sec |-> slice(t, jtime + 6, 2)]

\* The captures of the match of DATE_FORMAT_1123 at position i.
captures_1123_at(t, i) ==
    Captures(slice(t, i + 5, 2), slice(t, i + 8, 3), slice(t, i + 12, 4),
             t, i + 17)

\* Regex::captures is not anchored: the leftmost of the matches, if any.
leftmost_1123(t, matches) ==
    IF matches = {} THEN None ELSE Some(captures_1123_at(t, Min(matches)))

captures_1123(t) ==
    leftmost_1123(t, {k \in 1..Len(t) : re_1123_at(t, k)})

\* DATE_FORMAT_850 matched at position i with weekday name w and a year of
\* yl digits.
re_850_at(t, i, w, yl) ==
    LET j == i + Len(w)
    IN  /\ slice(t, i, Len(w)) = w
        /\ slice(t, j, 2) = <<",", " ">>
        /\ re_day2(slice(t, j + 2, 2))
        /\ slice(t, j + 4, 1) = <<"-">>
        /\ is_month(slice(t, j + 5, 3))
        /\ slice(t, j + 8, 1) = <<"-">>
        /\ re_year(slice(t, j + 9, yl), yl)
        /\ slice(t, j + 9 + yl, 1) = <<" ">>
        /\ re_time(t, j + 10 + yl)
        /\ slice(t, j + 18 + yl, 4) = <<" ", "G", "M", "T">>

\* The captures of the match of DATE_FORMAT_850 at position i, with weekday
\* name w and a year of yl digits.
captures_850_at(t, i, w, yl) ==
    Captures(slice(t, i + Len(w) + 2, 2), slice(t, i + Len(w) + 5, 3),
             slice(t, i + Len(w) + 9, yl), t, i + Len(w) + 10 + yl)

\* The match <<i, w, yl>> at the least position i.
first_match(matches) ==
    CHOOSE m \in matches : \A n \in matches : m[1] <= n[1]

leftmost_850(t, matches) ==
    IF matches = {} THEN None
    ELSE Some(captures_850_at(t, first_match(matches)[1],
                              first_match(matches)[2],
                              first_match(matches)[3]))

captures_850(t) ==
    leftmost_850(t, {m \in (1..Len(t)) \X (WEEKDAY \cup WKD) \X {4, 2} :
                        re_850_at(t, m[1], m[2], m[3])})

\* DATE_FORMAT_ASCT matched at position i with sp spaces before a day of dl
\* digits.
re_asct_at(t, i, sp, dl) ==
    LET j == i + 7 + sp
    IN  /\ slice(t, i, 3) \in WKD
        /\ slice(t, i + 3, 1) = <<" ">>
        /\ is_month(slice(t, i + 4, 3))
        /\ slice(t, i + 7, sp) = [k \in 1..sp |-> " "]
        /\ re_day12(slice(t, j, dl))
        /\ slice(t, j + dl, 1) = <<" ">>
        /\ re_time(t, j + dl + 1)
        /\ slice(t, j + dl + 9, 1) = <<" ">>
        /\ re_year(slice(t, j + dl + 10, 4), 4)

\* The captures of the match of DATE_FORMAT_ASCT at position i, with sp
\* spaces before a day of dl digits.
captures_asct_at(t, i, sp, dl) ==
    Captures(slice(t, i + 7 + sp, dl), slice(t, i + 4, 3),
             slice(t, i + 7 + sp + dl + 10, 4), t, i + 7 + sp + dl + 1)

leftmost_asct(t, matches) ==
    IF matches = {} THEN None
    ELSE Some(captures_asct_at(t, first_match(matches)[1],
                               first_match(matches)[2],
                               first_match(matches)[3]))

captures_asct(t) ==
    leftmost_asct(t, {m \in (1..Len(t)) \X {1, 2} \X {1, 2} :
                         re_asct_at(t, m[1], m[2], m[3])})

\* The date and time of the captured fields, year already corrected.
captured_date(c, year) ==
    DateTime(year, month_number(c.month), parse_digits(c.day),
             parse_digits(c.hour), parse_digits(c.min), parse_digits(c.sec))

\* NaiveDate::from_ymd(..).and_hms(..) panics when the date does not exist.
from_ymd_and_hms(d) ==
    IF valid_ymd(d.year, d.month, d.day) /\ valid_hms(d.hour, d.min, d.sec)
    THEN Ok(d) ELSE Panic

\* NaiveDate::from_ymd_opt(..) and and_hms_opt(..) give an error instead.
from_ymd_opt_and_hms_opt(d) ==
    IF valid_ymd(d.year, d.month, d.day) /\ valid_hms(d.hour, d.min, d.sec)
    THEN Ok(d) ELSE ParseError("Invalid date", <<>>)

date_of_1123(caps) ==
    IF is_none(caps) THEN ParseError("Invalid date", <<>>)
    ELSE from_ymd_and_hms(
             captured_date(unwrap(caps), parse_digits(unwrap(caps).year)))

parse_rfc_1123_date(date) == date_of_1123(captures_1123(date))

\* Fix millenium, for 2 digit year.
fix_millenium(year) ==
    year + (IF year < 70 THEN 2000 ELSE IF year < 100 THEN 1900 ELSE 0)

date_of_850(caps) ==
    IF is_none(caps) THEN ParseError("Invalid date", <<>>)
    ELSE from_ymd_opt_and_hms_opt(
             captured_date(unwrap(caps),
                           fix_millenium(parse_digits(unwrap(caps).year))))

parse_rfc_850_date(date) == date_of_850(captures_850(date))

date_of_asct(caps) ==
    IF is_none(caps) THEN ParseError("Invalid date", <<>>)
    ELSE from_ymd_and_hms(
             captured_date(unwrap(caps), parse_digits(unwrap(caps).year)))

parse_asct_date(date) == date_of_asct(captures_asct(date))

(***************************************************************************)
(* SetCookie                                                                *)
(***************************************************************************)
COOKIE_EXPIRES == <<"e","x","p","i","r","e","s">>
COOKIE_MAX_AGE == <<"m","a","x","-","a","g","e">>
COOKIE_DOMAIN == <<"d","o","m","a","i","n">>
COOKIE_PATH == <<"p","a","t","h">>
COOKIE_SAME_SITE == <<"s","a","m","e","s","i","t","e">>
COOKIE_SAME_SITE_STRICT == <<"s","t","r","i","c","t">>
COOKIE_SAME_SITE_LAX == <<"l","a","x">>
COOKIE_SAME_SITE_NONE == <<"n","o","n","e">>
COOKIE_SECURE == <<"s","e","c","u","r","e">>
COOKIE_HTTP_ONLY == <<"h","t","t","p","o","n","l","y">>

\* enum SameSiteValue {Strict, Lax, None}
SameSiteValue == {"Strict", "Lax", "None"}

SameSiteValue_from_str(s) ==
    IF s = COOKIE_SAME_SITE_STRICT THEN Ok("Strict")
    ELSE IF s = COOKIE_SAME_SITE_LAX THEN Ok("Lax")
    ELSE IF s = COOKIE_SAME_SITE_NONE THEN Ok("None")
    ELSE ParseError("Invalid SameSite cookie directive value: ", s)

\* SetCookie::new with the same-site policy Strict instead of the default
\* Lax.
SetCookie_new_strict(name, value, time) ==
    [name |-> name, value |-> value, domain |-> None, path |-> None,
     expires |-> None, max_age |-> None, created |-> time,
     same_site |-> "Strict", secure |-> FALSE, http_only |-> FALSE,
     extensions |-> <<>>]

\* SetCookie::new; created is SystemTime::now() at the call.
SetCookie_new(name, value, time) ==
    [name |-> name, value |-> value, domain |-> None, path |-> None,
     expires |-> None, max_age |-> None, created |-> time,
     same_site |-> "Lax", secure |-> FALSE, http_only |-> FALSE,
     extensions |-> <<>>]

\* SetCookie::to_cookie
to_cookie(c) == [name |-> c.name, value |-> c.value]

path_or_default(c) == IF is_some(c.path) THEN unwrap(c.path) ELSE <<"/">>

\* SystemTime + Duration panics when the sum is past the last instant a
\* SystemTime holds.
expire_time(c) ==
    IF is_some(c.max_age)
    THEN LET t == big_add(c.created, unwrap(c.max_age))
         IN  IF big_le(t, I64_MAX) THEN Ok(Some(t)) ELSE Panic
    ELSE IF is_some(c.expires)
    THEN LET utime == u64_try_from(timestamp(unwrap(c.expires)))
         IN  IF is_some(utime) THEN Ok(Some(unwrap(utime)))
             ELSE Ok(Some(c.created))
    ELSE Ok(None)

\* expired, called when SystemTime::now() is time.
expired(c, time) ==
    LET e == expire_time(c)
    IN  IF ~is_ok(e) THEN Panic
        ELSE IF is_some(e.val) THEN Ok(big_lt(unwrap(e.val), time))
        ELSE Ok(FALSE)

\* cookie_path_len - 1 underflows for an empty cookie path: the debug build
\* panics on the subtraction, the release build wraps and panics on the
\* unwrap of nth(usize::MAX); both builds panic.
use_in_request_path(c, path) ==
    LET cookie_path      == path_or_default(c)
        cookie_path_len  == str_len(cookie_path)
        request_path_len == str_len(path)
        last             == chars_nth(cookie_path, cookie_path_len - 1)
        next             == chars_nth(path, cookie_path_len)
    IN  IF ~starts_with(path, cookie_path) THEN Ok(FALSE)
        ELSE IF request_path_len = cookie_path_len THEN Ok(TRUE)
        ELSE IF is_none(last) THEN Panic
        ELSE IF unwrap(last) = "/" THEN Ok(TRUE)
        ELSE IF is_none(next) THEN Panic
        ELSE Ok(unwrap(next) = "/")

use_in_request_domain(c, request_domain) ==
    IF is_none(c.domain) THEN Ok(FALSE)
    ELSE LET cookie_domain == unwrap(c.domain)
             index         == rfind(request_domain, cookie_domain)
         IN  IF is_some(index)
             THEN IF unwrap(index) = 0 THEN Ok(TRUE)
                  ELSE LET ch == chars_nth(request_domain, unwrap(index) - 1)
                       IN  IF is_none(ch) THEN Panic
                           ELSE Ok(unwrap(ch) = ".")
             ELSE Ok(FALSE)

\* use_in_request without the test of the Secure attribute against the
\* request: a Secure cookie is sent over plain HTTP.
use_in_request_no_secure_test(c, request_domain, request_path, secure) ==
    IF is_none(c.domain) THEN Ok(FALSE)
    ELSE IF c.same_site = "Strict" /\ unwrap(c.domain) # request_domain
    THEN Ok(FALSE)
    ELSE IF c.same_site = "Lax"
            /\ ~is_ok(use_in_request_domain(c, request_domain))
    THEN Panic
    ELSE IF c.same_site = "Lax"
            /\ ~use_in_request_domain(c, request_domain).val
    THEN Ok(FALSE)
    ELSE IF c.same_site = "None" /\ ~c.secure THEN Ok(FALSE)
    ELSE use_in_request_path(c, request_path)

\* use_in_request with Strict treated like Lax: the domain-match test in
\* place of the equality of the two domains.
use_in_request_strict_as_lax(c, request_domain, request_path, secure) ==
    IF is_none(c.domain) THEN Ok(FALSE)
    ELSE IF c.secure /\ ~secure THEN Ok(FALSE)
    ELSE IF c.same_site \in {"Strict", "Lax"}
            /\ ~is_ok(use_in_request_domain(c, request_domain))
    THEN Panic
    ELSE IF c.same_site \in {"Strict", "Lax"}
            /\ ~use_in_request_domain(c, request_domain).val
    THEN Ok(FALSE)
    ELSE IF c.same_site = "None" /\ ~c.secure THEN Ok(FALSE)
    ELSE use_in_request_path(c, request_path)

use_in_request(c, request_domain, request_path, secure) ==
    IF is_none(c.domain) THEN Ok(FALSE)
    ELSE IF c.secure /\ ~secure THEN Ok(FALSE)
    ELSE IF c.same_site = "Strict" /\ unwrap(c.domain) # request_domain
    THEN Ok(FALSE)
    ELSE IF c.same_site = "Lax"
            /\ ~is_ok(use_in_request_domain(c, request_domain))
    THEN Panic
    ELSE IF c.same_site = "Lax"
            /\ ~use_in_request_domain(c, request_domain).val
    THEN Ok(FALSE)
    ELSE IF c.same_site = "None" /\ ~c.secure THEN Ok(FALSE)
    ELSE use_in_request_path(c, request_path)

(***************************************************************************)
(* Parsing                                                                  *)
(***************************************************************************)
parse_cookie_value(cookie) ==
    LET index == find(cookie, "=")
        key   == trim(SubSeq(cookie, 1, index - 1))
        value == trim(SubSeq(cookie, index + 1, Len(cookie)))
    IN  IF index # 0
        THEN IF str_len(value) = 0
             THEN ParseError("Cookie value must not be empty", <<>>)
             ELSE Ok([key |-> key, value |-> value])
        ELSE ParseError("Malformed HTTP cookie: ", cookie)

\* u64::from_str: an optional '+', then one digit or more, at most u64::MAX.
u64_from_str(s) ==
    LET digits == IF s # <<>> /\ Head(s) = "+" THEN Tail(s) ELSE s
        v      == big_norm([i \in 1..Len(digits) |-> digit_val(digits[i])])
    IN  IF digits = <<>> \/ ~all_digits(digits) THEN None
        ELSE IF big_le(v, U64_MAX) THEN Some(v) ELSE None

\* Result::or_else: the other result is computed only for an error; a panic
\* ends the chain.
or_else(r, other) == IF is_err(r) THEN other ELSE r

parse_expires(value) ==
    or_else(or_else(parse_rfc_1123_date(value), parse_rfc_850_date(value)),
            parse_asct_date(value))

\* The arms of the match on the key of a directive with a value.
directive_expires(expires) ==
    IF is_ok(expires) THEN Ok([kind |-> "Expires", date |-> expires.val])
    ELSE expires

directive_max_age(digit) ==
    IF is_some(digit) THEN Ok([kind |-> "MaxAge", seconds |-> unwrap(digit)])
    ELSE ParseError("Cannot parse Max-age", <<>>)

directive_same_site(r) ==
    IF is_ok(r) THEN Ok([kind |-> "SameSite", val |-> r.val]) ELSE r

directive_with_value(key, value) ==
    IF str_len(value) = 0
    THEN ParseError("Directive {} value must not be empty", key)
    ELSE IF key = COOKIE_EXPIRES THEN directive_expires(parse_expires(value))
    ELSE IF key = COOKIE_MAX_AGE THEN directive_max_age(u64_from_str(value))
    ELSE IF key = COOKIE_DOMAIN THEN Ok([kind |-> "Domain", url |-> value])
    ELSE IF key = COOKIE_PATH THEN Ok([kind |-> "Path", path |-> value])
    ELSE IF key = COOKIE_SAME_SITE
    THEN directive_same_site(SameSiteValue_from_str(to_ascii_lowercase(value)))
    ELSE Ok([kind |-> "Extension", name |-> key, value |-> Some(value)])

\* directive_without_value that takes the key of a directive that needs a
\* value for an extension.
directive_without_value_lenient(directive) ==
    IF directive = COOKIE_SECURE THEN Ok([kind |-> "Secure"])
    ELSE IF directive = COOKIE_HTTP_ONLY THEN Ok([kind |-> "HttpOnly"])
    ELSE Ok([kind |-> "Extension", name |-> directive, value |-> None])

\* The match on a directive without a value.
directive_without_value(directive) ==
    IF directive = COOKIE_SECURE THEN Ok([kind |-> "Secure"])
    ELSE IF directive = COOKIE_HTTP_ONLY THEN Ok([kind |-> "HttpOnly"])
    ELSE IF directive \in {COOKIE_DOMAIN, COOKIE_EXPIRES, COOKIE_MAX_AGE,
                           COOKIE_PATH, COOKIE_SAME_SITE}
    THEN ParseError("Directive {} needs a value", directive)
    ELSE Ok([kind |-> "Extension", name |-> directive, value |-> None])

\* from_str with index the result of s.find('='), 0 for none.
directive_at(s, index) ==
    IF index # 0
    THEN directive_with_value(
             to_ascii_lowercase(trim(SubSeq(s, 1, index - 1))),
             trim(SubSeq(s, index + 1, Len(s))))
    ELSE directive_without_value(to_ascii_lowercase(trim(s)))

CookieDirective_from_str(s) == directive_at(s, find(s, "="))

\* HashMap::insert
insert(map, key, value) ==
    [k \in DOMAIN map \cup {key} |-> IF k = key THEN value ELSE map[k]]

\* The arm of the match in from_str that stores one directive.
store_directive(cookie, directive) ==
    CASE directive.kind = "Expires" ->
            [cookie EXCEPT !.expires = Some(directive.date)]
      [] directive.kind = "MaxAge" ->
            [cookie EXCEPT !.max_age = Some(directive.seconds)]
      [] directive.kind = "Domain" ->
            \* starting dot is ignored
            [cookie EXCEPT !.domain =
                Some(IF is_some(strip_prefix(directive.url, <<".">>))
                     THEN unwrap(strip_prefix(directive.url, <<".">>))
                     ELSE directive.url)]
      [] directive.kind = "Path" ->
            [cookie EXCEPT !.path = Some(directive.path)]
      [] directive.kind = "SameSite" ->
            [cookie EXCEPT !.same_site = directive.val]
      [] directive.kind = "Secure" -> [cookie EXCEPT !.secure = TRUE]
      [] directive.kind = "HttpOnly" -> [cookie EXCEPT !.http_only = TRUE]
      [] directive.kind = "Extension" ->
            [cookie EXCEPT !.extensions =
                insert(cookie.extensions, directive.name, directive.value)]

\* The while loop of from_str over the components after the first.
RECURSIVE fold_directives(_, _)

\* One turn of the loop: the ? on the directive, then the match that stores
\* it.
fold_directive(cookie, directive, rest) ==
    IF ~is_ok(directive) THEN directive
    ELSE fold_directives(store_directive(cookie, directive.val), rest)

fold_directives(cookie, components) ==
    IF components = <<>> THEN Ok(cookie)
    ELSE fold_directive(cookie, CookieDirective_from_str(Head(components)),
                        Tail(components))

\* let (key, value) = parse_cookie_value(slice)?; the cookie and the loop
\* over the components left.
cookie_of(kv, time, rest) ==
    IF ~is_ok(kv) THEN kv
    ELSE fold_directives(SetCookie_new(kv.val.key, kv.val.value, time), rest)

\* The else branch of from_str, for an iterator without a first component.
cookie_without_components(kv, time) ==
    IF ~is_ok(kv) THEN kv
    ELSE Ok(SetCookie_new(kv.val.key, kv.val.value, time))

from_components(s, time, components) ==
    IF components # <<>>
    THEN cookie_of(parse_cookie_value(Head(components)), time,
                   Tail(components))
    ELSE IF is_ok(CookieDirective_from_str(s))
    THEN ParseError("Cookie has not got name/value", <<>>)
    ELSE cookie_without_components(parse_cookie_value(s), time)

\* <SetCookie as FromStr>::from_str, called when SystemTime::now() is time.
SetCookie_from_str(s, time) == from_components(s, time, split(s, ";"))

(***************************************************************************)
(* The state machine.  header is the Set-Cookie value received (empty when  *)
(* the cookie is built by the caller), cookie is the SetCookie the caller   *)
(* holds (None before one is built), now is the wall clock in seconds since *)
(* the epoch, last is the last call made: its name, its arguments and what  *)
(* it returned.                                                             *)
(***************************************************************************)
VARIABLES header, cookie, now, last

vars == <<header, cookie, now, last>>

this == unwrap(cookie)

Call(op, args, result) == [op |-> op, args |-> args, result |-> result]
NoCall == [op |-> "none"]

\* All strings over the alphabet of at most n characters.
RECURSIVE Strings(_, _)
Strings(alphabet, n) ==
    IF n = 0 THEN {<<>>}
    ELSE Strings(alphabet, n - 1)
         \cup {Append(s, ch) : s \in Strings(alphabet, n - 1), ch \in alphabet}

\* The wall clock when the model starts: 2023-11-14 22:13:20 GMT.
ClockStart == timestamp(DateTime(2023, 11, 14, 22, 13, 20)).mag

\* A cookie as a server builds it: SetCookie::new, then its public fields.
Built(domain, path, same_site, secure, max_age, expires) ==
    [SetCookie_new(<<"i", "d">>, <<"1">>, ClockStart) EXCEPT
        !.domain = domain, !.path = path, !.same_site = same_site,
        !.secure = secure, !.max_age = max_age, !.expires = expires]

Opt(S) == {None} \cup {Some(x) : x \in S}

(***************************************************************************)
(* The calls                                                                *)
(***************************************************************************)
\* SetCookie::from_str(header): the caller holds the cookie parsed, if any.
FromStr ==
    /\ last' = Call("from_str", <<header>>, SetCookie_from_str(header, now))
    /\ cookie' = IF is_ok(last'.result) THEN Some(last'.result.val) ELSE None
    /\ UNCHANGED <<header, now>>

UseInRequestDomain(request_domain) ==
    /\ is_some(cookie)
    /\ last' = Call("use_in_request_domain", <<request_domain>>,
                    use_in_request_domain(this, request_domain))
    /\ UNCHANGED <<header, cookie, now>>

UseInRequestPath(path) ==
    /\ is_some(cookie)
    /\ last' = Call("use_in_request_path", <<path>>,
                    use_in_request_path(this, path))
    /\ UNCHANGED <<header, cookie, now>>

UseInRequest(request_domain, request_path, secure) ==
    /\ is_some(cookie)
    /\ last' = Call("use_in_request", <<request_domain, request_path, secure>>,
                    use_in_request(this, request_domain, request_path, secure))
    /\ UNCHANGED <<header, cookie, now>>

\* expire_time with the Max-Age expiry anchored at the time of the call, not at
\* the creation instant.
ExpireTime_at_call ==
    /\ is_some(cookie)
    /\ last' = Call("expire_time", <<>>,
                    expire_time([this EXCEPT !.created = now]))
    /\ UNCHANGED <<header, cookie, now>>

ExpireTime ==
    /\ is_some(cookie)
    /\ last' = Call("expire_time", <<>>, expire_time(this))
    /\ UNCHANGED <<header, cookie, now>>

Expired ==
    /\ is_some(cookie)
    /\ last' = Call("expired", <<now>>, expired(this, now))
    /\ UNCHANGED <<header, cookie, now>>

\* The wall clock advances by one second.
MaxTicks == 3

Tick ==
    /\ big_lt(now, big_add(ClockStart, big_of(MaxTicks)))
    /\ now' = big_add(now, big_of(1))
    /\ UNCHANGED <<header, cookie, last>>

(***************************************************************************)
(* Domain matching: a cookie with any domain, any request domain.           *)
(***************************************************************************)
MaxDomainLen == 3

DomainAlphabet == {"a", ".", "é"}

\* The domains of the crate's tests and examples.
DomainExamples ==
    {<<"b",".","a">>,  \* b.a
     <<"c",".","b",".","a">>,  \* c.b.a
     <<"d",".","c",".","b",".","a">>,  \* d.c.b.a
     <<"x","b",".","a">>,  \* xb.a
     <<"x",".","a">>,  \* x.a
     <<"e","x","a","m","p","l","e",".","c","o","m">>,  \* example.com
     <<"w","w","w",".","e","x","a","m","p","l","e",".","c","o","m">>}  \* www.example.com

Domains == Strings(DomainAlphabet, MaxDomainLen) \cup DomainExamples

InitDomain ==
    /\ cookie \in {Some(Built(d, None, "Lax", FALSE, None, None)) :
                      d \in Opt(Domains)}
    /\ header = <<>>
    /\ now = ClockStart
    /\ last = NoCall

NextDomain == \E r \in Domains : UseInRequestDomain(r)

SpecDomain == InitDomain /\ [][NextDomain]_vars

(***************************************************************************)
(* Path matching: a cookie with any path, any request path.                 *)
(***************************************************************************)
MaxPathLen == 3

PathAlphabet == {"/", "a", "é"}

\* The paths of the path-match examples.
PathExamples ==
    {<<"/","f","o","o">>,  \* /foo
     <<"/","f","o","o","/","b","a","r">>,  \* /foo/bar
     <<"/","f","o","o","b","a","r">>}  \* /foobar

Paths == Strings(PathAlphabet, MaxPathLen) \cup PathExamples

InitPath ==
    /\ cookie \in {Some(Built(None, p, "Lax", FALSE, None, None)) :
                      p \in Opt(Paths)}
    /\ header = <<>>
    /\ now = ClockStart
    /\ last = NoCall

NextPath == \E r \in Paths : UseInRequestPath(r)

SpecPath == InitPath /\ [][NextPath]_vars

(***************************************************************************)
(* Requests: cookies of every same-site policy and secure flag, with and    *)
(* without a domain and a path, against secure and insecure requests.       *)
(***************************************************************************)
CookieDomains ==
    {<<"a">>,  \* a
     <<"b",".","a">>,  \* b.a
     <<"e","x","a","m","p","l","e",".","c","o","m">>}  \* example.com

RequestDomains ==
    {<<"a">>,  \* a
     <<"b",".","a">>,  \* b.a
     <<"c",".","b",".","a">>,  \* c.b.a
     <<"x","b",".","a">>,  \* xb.a
     <<"é","é","a">>,  \* ééa
     <<"w","w","w",".","e","x","a","m","p","l","e",".","c","o","m">>}  \* www.example.com

CookiePaths ==
    {<<>>,  \* the empty text
     <<"/">>,  \* /
     <<"/","a">>,  \* /a
     <<"/","é">>}  \* /é

RequestPaths ==
    {<<"/">>,  \* /
     <<"/","a">>,  \* /a
     <<"/","a","/","b">>,  \* /a/b
     <<"/","a","b">>,  \* /ab
     <<"/","é","/">>}  \* /é/

InitRequest ==
    /\ cookie \in {Some(Built(d, p, ss, sec, None, None)) :
                      d \in Opt(CookieDomains), p \in Opt(CookiePaths),
                      ss \in SameSiteValue, sec \in BOOLEAN}
    /\ header = <<>>
    /\ now = ClockStart
    /\ last = NoCall

NextRequest ==
    \E d \in RequestDomains, p \in RequestPaths, secure \in BOOLEAN :
        UseInRequest(d, p, secure)

SpecRequest == InitRequest /\ [][NextRequest]_vars

(***************************************************************************)
(* Expiry: cookies with and without Max-Age and Expires, while the clock    *)
(* advances.                                                                *)
(***************************************************************************)
\* Max-Age values: 0, 1, 2, 3600 seconds and the largest u64.
MaxAges == {big_of(0), big_of(1), big_of(2), big_of(3600), U64_MAX}

\* Expires values: the last second before the epoch, the epoch, a date
\* passed when the model starts, the second after the model starts, and the
\* last second of year 9999.
ExpiresDates ==
    {DateTime(1969, 12, 31, 23, 59, 59),
     DateTime(1970, 1, 1, 0, 0, 0),
     DateTime(2022, 1, 26, 7, 28, 0),
     DateTime(2023, 11, 14, 22, 13, 21),
     DateTime(9999, 12, 31, 23, 59, 59)}

InitExpire ==
    /\ cookie \in {Some(Built(None, None, "Lax", FALSE, ma, ex)) :
                      ma \in Opt(MaxAges), ex \in Opt(ExpiresDates)}
    /\ header = <<>>
    /\ now = ClockStart
    /\ last = NoCall

NextExpire == ExpireTime \/ Expired \/ Tick

SpecExpire == InitExpire /\ [][NextExpire]_vars

(***************************************************************************)
(* Parsing: Set-Cookie values made of a first segment and directives.       *)
(***************************************************************************)
MaxDirectives == 2

\* The text before the first ';'.
FirstSegments ==
    {<<"a","=","b">>,  \* "a=b"
     <<" ","a"," ","="," ","b"," ">>,  \* " a = b "
     <<"=","b">>,  \* "=b"
     <<"a","=">>,  \* "a="
     <<"a","="," ">>,  \* "a= "
     <<"a">>,  \* "a"
     <<"a",":","b">>,  \* "a:b"
     <<"S","e","c","u","r","e">>,  \* "Secure"
     <<"H","t","t","p","O","n","l","y">>,  \* "HttpOnly"
     <<"M","a","x","-","A","g","e","=","-","1">>,  \* "Max-Age=-1"
     <<>>,  \* ""
     <<"a","=","b","=","c">>,  \* "a=b=c"
     <<"x"," ","y","="," ","c"," ","d"," ">>,  \* "x y= c d "
     <<"é","=","é">>}  \* "é=é"

\* Directives combined with each other, in every order.
CoreDirectives ==
    {<<" ","D","o","m","a","i","n","=","b",".","a">>,  \* " Domain=b.a"
     <<" ","D","o","m","a","i","n","=",".","a">>,  \* " Domain=.a"
     <<" ","P","a","t","h","=","/","a">>,  \* " Path=/a"
     <<" ","M","a","x","-","A","g","e","=","1">>,  \* " Max-Age=1"
     <<" ","S","a","m","e","S","i","t","e","=","S","t","r","i","c","t">>,  \* " SameSite=Strict"
     <<" ","S","e","c","u","r","e">>,  \* " Secure"
     <<" ","x","=","y">>,  \* " x=y"
     <<" ","P","a","t","h">>}  \* " Path"

\* Directives tried one at a time after the pair a=b.
Directives ==
    {<<" ","D","o","m","a","i","n","=",".",".","a">>,  \* " Domain=..a"
     <<"D","o","m","a","i","n","=",".">>,  \* "Domain=."
     <<" ","d","o","m","a","i","n"," ","="," ","b",".","a"," ">>,  \* " domain = b.a "
     <<"D","o","m","a","i","n","=">>,  \* "Domain="
     <<" ","P","a","t","h","=","/">>,  \* " Path=/"
     <<"M","a","x","-","A","g","e","=","0">>,  \* "Max-Age=0"
     <<" ","M","a","x","-","A","g","e","=","-","1">>,  \* " Max-Age=-1"
     <<" ","M","a","x","-","A","g","e","=","1","A">>,  \* " Max-Age=1A"
     <<" ","M","a","x","-","A","g","e","=","+","5">>,  \* " Max-Age=+5"
     <<" ","M","a","x","-","A","g","e","=","1","8","4","4","6","7","4","4","0","7","3","7","0","9","5","5","1","6","1","5">>,  \* " Max-Age=18446744073709551615"
     <<" ","M","a","x","-","A","g","e","=","1","8","4","4","6","7","4","4","0","7","3","7","0","9","5","5","1","6","1","6">>,  \* " Max-Age=18446744073709551616"
     <<" ","E","x","p","i","r","e","s","=","W","e","d",","," ","2","6"," ","J","a","n"," ","2","0","2","2"," ","0","7",":","2","8",":","0","0"," ","G","M","T">>,  \* " Expires=Wed, 26 Jan 2022 07:28:00 GMT"
     <<" ","E","x","p","i","r","e","s","=","W","e","d","n","e","s","d","a","y",","," ","2","6","-","J","a","n","-","2","2"," ","0","7",":","2","8",":","0","0"," ","G","M","T">>,  \* " Expires=Wednesday, 26-Jan-22 07:28:00 GMT"
     <<" ","E","x","p","i","r","e","s","=","W","e","d"," ","J","a","n"," ","2","6"," ","0","7",":","2","8",":","0","0"," ","2","0","2","2">>,  \* " Expires=Wed Jan 26 07:28:00 2022"
     <<" ","E","x","p","i","r","e","s","=","W","e","d",","," ","3","1"," ","D","e","c"," ","1","9","6","9"," ","2","3",":","5","9",":","5","9"," ","G","M","T">>,  \* " Expires=Wed, 31 Dec 1969 23:59:59 GMT"
     <<" ","E","x","p","i","r","e","s","=","T","u","e",","," ","3","1"," ","F","e","b"," ","2","0","2","2"," ","1","0",":","0","0",":","0","0"," ","G","M","T">>,  \* " Expires=Tue, 31 Feb 2022 10:00:00 GMT"
     <<" ","E","x","p","i","r","e","s","=","T","u","e",","," ","3","1","-","F","e","b","-","2","2"," ","1","0",":","0","0",":","0","0"," ","G","M","T">>,  \* " Expires=Tue, 31-Feb-22 10:00:00 GMT"
     <<" ","E","x","p","i","r","e","s","=","2","6"," ","J","a","n"," ","2","0","2","2">>,  \* " Expires=26 Jan 2022"
     <<" ","s","a","m","e","s","i","t","e","=","l","a","x">>,  \* " samesite=lax"
     <<" ","S","a","m","e","S","i","t","e","=","N","O","N","E">>,  \* " SameSite=NONE"
     <<" ","S","a","m","e","S","i","t","e","=","x">>,  \* " SameSite=x"
     <<" ","H","t","t","p","O","n","l","y">>,  \* " HttpOnly"
     <<" ","X">>,  \* " X"
     <<>>}  \* ""

\* The text of a first segment followed by directives, each after a ';'.
join(first, directives) ==
    first \o concat([i \in 1..Len(directives) |-> <<";">> \o directives[i]])

Headers ==
    {join(f, ds) : f \in FirstSegments,
                   ds \in Strings(CoreDirectives, MaxDirectives)}
    \cup {join(<<"a", "=", "b">>, <<d>>) : d \in Directives}

InitParse ==
    /\ header \in Headers
    /\ cookie = None
    /\ now = ClockStart
    /\ last = NoCall

NextParse == FromStr

SpecParse == InitParse /\ [][NextParse]_vars

(***************************************************************************)
(* Dates: texts in the shape of each of the three grammars, given to each   *)
(* of the three parsers.                                                    *)
(***************************************************************************)
ParseRfc1123Date(date) ==
    /\ last' = Call("parse_rfc_1123_date", <<date>>, parse_rfc_1123_date(date))
    /\ UNCHANGED <<header, cookie, now>>

ParseRfc850Date(date) ==
    /\ last' = Call("parse_rfc_850_date", <<date>>, parse_rfc_850_date(date))
    /\ UNCHANGED <<header, cookie, now>>

ParseAsctDate(date) ==
    /\ last' = Call("parse_asct_date", <<date>>, parse_asct_date(date))
    /\ UNCHANGED <<header, cookie, now>>

\* Days of the month: one that every month has but February of a common
\* year, one that only the long months have, and 39, which the grammars
\* admit.
DayTexts == {<<"2","9">>, <<"3","1">>, <<"3","9">>}

MonthTexts == {<<"F","e","b">>, <<"A","p","r">>}

\* A common year and a leap year.
Year4Texts == {<<"2","0","2","3">>, <<"2","0","2","4">>}

\* Years of the RFC-850 texts: two digits on both sides of the limit 70,
\* four digits, and a year below 100 written with four digits.
Year850Texts ==
    {<<"2","3">>, <<"2","4">>, <<"6","9">>, <<"7","0">>,
     <<"2","0","2","3">>, <<"0","0","6","9">>}

TimeText == <<"0","9",":","1","3",":","2","9">>

GMT == <<" ","G","M","T">>

\* Tue, 15 Nov 2023 09:13:29 GMT
text_1123(day, month, year) ==
    <<"T","u","e",","," ">> \o day \o <<" ">> \o month \o <<" ">> \o year
        \o <<" ">> \o TimeText \o GMT

\* Tuesday, 15-Nov-23 09:13:29 GMT
text_850(day, month, year) ==
    <<"T","u","e","s","d","a","y",","," ">> \o day \o <<"-">> \o month
        \o <<"-">> \o year \o <<" ">> \o TimeText \o GMT

\* Tue Nov 15 09:13:29 2023
text_asct(day, month, year) ==
    <<"T","u","e"," ">> \o month \o <<" ">> \o day \o <<" ">> \o TimeText
        \o <<" ">> \o year

\* Dates with text before or after them, and with a zone that is not GMT.
DatesWithExtraText ==
    {<<"T","u","e",","," ","2","9"," ","A","p","r"," ","2","0","2","3"," ","0","9",":","1","3",":","2","9"," ","G","M","T","+","0","2","0","0">>,  \* "Tue, 29 Apr 2023 09:13:29 GMT+0200"
     <<"x"," ","T","u","e",","," ","2","9"," ","A","p","r"," ","2","0","2","3"," ","0","9",":","1","3",":","2","9"," ","G","M","T">>,  \* "x Tue, 29 Apr 2023 09:13:29 GMT"
     <<"T","u","e",","," ","2","9"," ","A","p","r"," ","2","0","2","3"," ","0","9",":","1","3",":","2","9"," ","U","T","C">>,  \* "Tue, 29 Apr 2023 09:13:29 UTC"
     <<"T","u","e",","," ","2","9"," ","A","p","r"," ","2","0","2","3"," ","0","9",":","1","3",":","2","9"," ","+","0","2","0","0">>,  \* "Tue, 29 Apr 2023 09:13:29 +0200"
     <<"T","u","e","s","d","a","y",","," ","2","9","-","A","p","r","-","2","3"," ","0","9",":","1","3",":","2","9"," ","G","M","T","+","0","2","0","0">>,  \* "Tuesday, 29-Apr-23 09:13:29 GMT+0200"
     <<"T","u","e","s","d","a","y",","," ","2","9","-","A","p","r","-","2","3"," ","0","9",":","1","3",":","2","9"," ","U","T","C">>,  \* "Tuesday, 29-Apr-23 09:13:29 UTC"
     <<"T","u","e"," ","A","p","r"," ","2","9"," ","0","9",":","1","3",":","2","9"," ","2","0","2","3"," ","P","S","T">>,  \* "Tue Apr 29 09:13:29 2023 PST"
     <<"a","t"," ","T","u","e"," ","A","p","r"," ","2","9"," ","0","9",":","1","3",":","2","9"," ","2","0","2","3">>}  \* "at Tue Apr 29 09:13:29 2023"

Dates ==
    {text_1123(d, m, y) : d \in DayTexts, m \in MonthTexts, y \in Year4Texts}
    \cup {text_850(d, m, y) : d \in DayTexts, m \in MonthTexts,
                              y \in Year850Texts}
    \cup {text_asct(d, m, y) : d \in DayTexts, m \in MonthTexts,
                               y \in Year4Texts}
    \cup DatesWithExtraText

InitDate ==
    /\ header = <<>>
    /\ cookie = None
    /\ now = ClockStart
    /\ last = NoCall

NextDate ==
    \E date \in Dates :
        \/ ParseRfc1123Date(date)
        \/ ParseRfc850Date(date)
        \/ ParseAsctDate(date)

SpecDate == InitDate /\ [][NextDate]_vars

(***************************************************************************)
(* Formatting: Display of Cookie and of SetCookie.                          *)
(***************************************************************************)
\* {} of an integer.
RECURSIVE fmt_int(_)
fmt_int(n) ==
    IF n < 0 THEN <<"-">> \o fmt_int(0 - n)
    ELSE IF n < 10 THEN <<DIGITS[n + 1]>>
    ELSE fmt_int(n \div 10) \o <<DIGITS[(n % 10) + 1]>>

\* {:02} of an integer.
fmt_02(n) == IF 0 <= n /\ n < 10 THEN <<"0">> \o fmt_int(n) ELSE fmt_int(n)

\* {} of duration.as_secs()
fmt_u64(n) == [i \in 1..Len(n) |-> DIGITS[n[i] + 1]]

\* Display of chrono::Weekday
WEEKDAY_NAME == <<<<"M","o","n">>, <<"T","u","e">>, <<"W","e","d">>, <<"T","h","u">>, <<"F","r","i">>, <<"S","a","t">>, <<"S","u","n">>>>

\* DateTime::weekday; 1970-01-01 is a Thursday.
weekday(date) == WEEKDAY_NAME[((days_from_epoch(date) + 3) % 7) + 1]

\* Display of Cookie: name=value
Cookie_fmt(c) == c.name \o <<"=">> \o c.value

fmt_domain(c) ==
    IF is_some(c.domain) THEN <<","," ","D","o","m","a","i","n","=">> \o unwrap(c.domain) ELSE <<>>

fmt_path(c) ==
    IF is_some(c.path) THEN <<","," ","P","a","t","h","=">> \o unwrap(c.path) ELSE <<>>

\* {}, {:02}-{}-{} {:02}:{:02}:{:02} GMT
fmt_date(date) ==
    weekday(date) \o <<","," ">> \o fmt_02(date.day) \o <<"-">>
        \o MONTH_NAME[date.month] \o <<"-">> \o fmt_int(date.year) \o <<" ">>
        \o fmt_02(date.hour) \o <<":">> \o fmt_02(date.min) \o <<":">>
        \o fmt_02(date.sec) \o <<" ","G","M","T">>

\* fmt_expiry with the precedence reversed: Expires is written when both
\* Max-Age and Expires are set.
fmt_expiry_expires_first(c) ==
    IF is_some(c.expires) THEN <<","," ","E","x","p","i","r","e","s","=">> \o fmt_date(unwrap(c.expires))
    ELSE IF is_some(c.max_age) THEN <<","," ","M","a","x","-","A","g","e","=">> \o fmt_u64(unwrap(c.max_age))
    ELSE <<>>

fmt_expiry(c) ==
    IF is_some(c.max_age) THEN <<","," ","M","a","x","-","A","g","e","=">> \o fmt_u64(unwrap(c.max_age))
    ELSE IF is_some(c.expires) THEN <<","," ","E","x","p","i","r","e","s","=">> \o fmt_date(unwrap(c.expires))
    ELSE <<>>

fmt_same_site(c) ==
    IF c.same_site = "None" THEN <<","," ","S","a","m","e","S","i","t","e","=","N","o","n","e">>
    ELSE IF c.same_site = "Strict" THEN <<","," ","S","a","m","e","S","i","t","e","=","S","t","r","i","c","t">>
    ELSE <<>>

fmt_secure(c) == IF c.secure THEN <<","," ","S","e","c","u","r","e">> ELSE <<>>

fmt_http_only(c) == IF c.http_only THEN <<","," ","H","t","t","p","O","n","l","y">> ELSE <<>>

fmt_extension(key, value) ==
    IF is_some(value) THEN <<","," ">> \o key \o <<"=">> \o unwrap(value)
    ELSE <<","," ">> \o key

\* The orders in which a HashMap with these keys may be iterated.
Orders(keys) ==
    {order \in [1..Cardinality(keys) -> keys] :
        \A i, j \in 1..Cardinality(keys) : order[i] = order[j] => i = j}

\* <SetCookie as Display>::fmt, the extensions iterated in the given order.
SetCookie_fmt(c, order) ==
    c.name \o <<"=">> \o c.value \o fmt_domain(c) \o fmt_path(c)
        \o fmt_expiry(c) \o fmt_same_site(c) \o fmt_secure(c)
        \o fmt_http_only(c)
        \o concat([i \in 1..Len(order) |->
                      fmt_extension(order[i], c.extensions[order[i]])])

\* cookie.to_string(): the order of the extensions is the HashMap's.
Fmt ==
    /\ is_some(cookie)
    /\ \E order \in Orders(DOMAIN this.extensions) :
          last' = Call("to_string", <<>>, Ok(SetCookie_fmt(this, order)))
    /\ UNCHANGED <<header, cookie, now>>

\* cookie.to_cookie().to_string()
ToCookie ==
    /\ is_some(cookie)
    /\ last' = Call("to_cookie", <<>>, Ok(Cookie_fmt(to_cookie(this))))
    /\ UNCHANGED <<header, cookie, now>>

\* Cookies as a server builds them, with every combination of fields.
FormatAges == {big_of(1200)}

\* A date with a day and an hour of two digits, and one with a day, hour,
\* minute and second of one digit.
FormatDates ==
    {DateTime(2023, 11, 15, 19, 13, 29), DateTime(2022, 1, 6, 7, 8, 0)}

FormatExtensions ==
    {<<>>,
     insert(<<>>, <<"x">>, Some(<<"y">>)),
     insert(insert(<<>>, <<"x">>, Some(<<"y">>)), <<"z">>, None)}

InitFormat ==
    /\ cookie \in {Some([Built(d, p, ss, sec, ma, ex) EXCEPT
                            !.http_only = ho, !.extensions = ext]) :
                      d \in Opt({<<"b", ".", "a">>}), p \in Opt({<<"/", "a">>}),
                      ss \in SameSiteValue, sec \in BOOLEAN,
                      ma \in Opt(FormatAges), ex \in Opt(FormatDates),
                      ho \in BOOLEAN, ext \in FormatExtensions}
    /\ header = <<>>
    /\ now = ClockStart
    /\ last = NoCall

NextFormat == Fmt \/ ToCookie

SpecFormat == InitFormat /\ [][NextFormat]_vars

(***************************************************************************)
(* Sessions: a Set-Cookie value is parsed, and the cookie parsed is matched *)
(* against requests and formatted.                                          *)
(***************************************************************************)
SessionHeaders ==
    {<<"a","=","b">>,  \* "a=b"
     <<"a","=","b",";"," ","D","o","m","a","i","n","=","b",".","a",";"," ","P","a","t","h","=","/","a">>,  \* "a=b; Domain=b.a; Path=/a"
     <<"a","=","b",";"," ","D","o","m","a","i","n","=","a",";"," ","S","e","c","u","r","e",";"," ","S","a","m","e","S","i","t","e","=","S","t","r","i","c","t">>,  \* "a=b; Domain=a; Secure; SameSite=Strict"
     <<"a","=","b",";"," ","P","a","t","h","=","/","é",";"," ","S","a","m","e","S","i","t","e","=","N","o","n","e">>,  \* "a=b; Path=/é; SameSite=None"
     <<"a","=","b",";"," ","D","o","m","a","i","n","=","a",";"," ","E","x","p","i","r","e","s","=","S","u","n",","," ","0","6"," ","N","o","v"," ","1","9","9","4"," ","0","8",":","4","9",":","3","7"," ","G","M","T">>,  \* "a=b; Domain=a; Expires=Sun, 06 Nov 1994 08:49:37 GMT"
     <<"a","=","b",";"," ","D","o","m","a","i","n","=","a",";"," ","M","a","x","-","A","g","e","=","0">>,  \* "a=b; Domain=a; Max-Age=0"
     <<"a","=","b",";"," ","D","o","m","a","i","n","=","a",";"," ","M","a","x","-","A","g","e","=","3","6","0","0",";"," ","x","=","y",";"," ","H","t","t","p","O","n","l","y">>,  \* "a=b; Domain=a; Max-Age=3600; x=y; HttpOnly"
     <<"S","e","c","u","r","e">>}  \* "Secure"

InitSession ==
    /\ header \in SessionHeaders
    /\ cookie = None
    /\ now = ClockStart
    /\ last = NoCall

NextSession ==
    \/ FromStr
    \/ \E d \in RequestDomains : UseInRequestDomain(d)
    \/ \E p \in RequestPaths : UseInRequestPath(p)
    \/ \E d \in RequestDomains, p \in RequestPaths, secure \in BOOLEAN :
          UseInRequest(d, p, secure)
    \/ Expired
    \/ Fmt

SpecSession == InitSession /\ [][NextSession]_vars

(***************************************************************************)
(* Directives: segments with the known keys and an unknown one, in several  *)
(* letter cases, with and without a value, classified one at a time.        *)
(***************************************************************************)
CookieDirectiveFromStr(s) ==
    /\ last' = Call("CookieDirective::from_str", <<s>>,
                    CookieDirective_from_str(s))
    /\ UNCHANGED <<header, cookie, now>>

\* The keys as servers write them, in lower case and in upper case.
KeyTexts ==
    {<<"E","x","p","i","r","e","s">>, <<"M","a","x","-","A","g","e">>, <<"D","o","m","a","i","n">>, <<"P","a","t","h">>, <<"S","a","m","e","S","i","t","e">>, <<"S","e","c","u","r","e">>,
     <<"H","t","t","p","O","n","l","y">>, <<"E","x","t">>,
     <<"e","x","p","i","r","e","s">>, <<"m","a","x","-","a","g","e">>, <<"d","o","m","a","i","n">>, <<"p","a","t","h">>, <<"s","a","m","e","s","i","t","e">>, <<"s","e","c","u","r","e">>,
     <<"h","t","t","p","o","n","l","y">>, <<"e","x","t">>,
     <<"E","X","P","I","R","E","S">>, <<"M","A","X","-","A","G","E">>, <<"D","O","M","A","I","N">>, <<"P","A","T","H">>, <<"S","A","M","E","S","I","T","E">>, <<"S","E","C","U","R","E">>,
     <<"H","T","T","P","O","N","L","Y">>, <<"E","X","T">>}

\* No value, the empty value, and values of the several directives.
ValueTexts ==
    {<<>>, <<"=">>, <<"=","L","a","x">>, <<"="," ","N","O","N","E"," ">>, <<"=","s","t","r","i","c","T">>, <<"=","F","o","o">>, <<"=","1","2","0","0">>}

\* Max-Age with zero, leading zeros, whitespace, a sign, characters that
\* are no digits, the largest u64 and numbers past it.
MaxAgeSegments ==
    {<<"M","a","x","-","A","g","e","=","0">>,  \* "Max-Age=0"
     <<"M","a","x","-","A","g","e","=","0","0","7">>,  \* "Max-Age=007"
     <<"m","a","x","-","a","g","e"," ","="," ","1","2"," ">>,  \* "max-age = 12 "
     <<"M","a","x","-","A","g","e","=","+","5">>,  \* "Max-Age=+5"
     <<"M","a","x","-","A","g","e","=","-","1">>,  \* "Max-Age=-1"
     <<"M","a","x","-","A","g","e","=","-","1","2","0","0">>,  \* "Max-Age=-1200"
     <<"M","a","x","-","A","g","e","=","1","A","2","0","0">>,  \* "Max-Age=1A200"
     <<"M","a","x","-","A","g","e","=","1"," ","2">>,  \* "Max-Age=1 2"
     <<"M","a","x","-","A","g","e","=","1","2",".","5">>,  \* "Max-Age=12.5"
     <<"M","a","x","-","A","g","e","=","1","8","4","4","6","7","4","4","0","7","3","7","0","9","5","5","1","6","1","5">>,  \* "Max-Age=18446744073709551615"
     <<"M","a","x","-","A","g","e","=","1","8","4","4","6","7","4","4","0","7","3","7","0","9","5","5","1","6","1","6">>,  \* "Max-Age=18446744073709551616"
     <<"M","a","x","-","A","g","e","=","9","9","9","9","9","9","9","9","9","9","9","9","9","9","9","9","9","9","9","9">>}  \* "Max-Age=99999999999999999999"

\* Segments without '=' with whitespace around them, the empty segment and
\* the segment of an '=' alone.
BareSegments ==
    {<<" ","S","e","c","u","r","e"," ">>, <<"\t","H","t","t","p","O","n","l","y">>, <<" ","P","a","t","h"," ">>, <<" ","e"," ","x"," ">>, <<>>, <<" ">>, <<"=">>, <<" ","="," ">>}

Segments ==
    {k \o v : k \in KeyTexts, v \in ValueTexts}
    \cup MaxAgeSegments \cup BareSegments

InitDirective ==
    /\ header = <<>>
    /\ cookie = None
    /\ now = ClockStart
    /\ last = NoCall

NextDirective == \E s \in Segments : CookieDirectiveFromStr(s)

SpecDirective == InitDirective /\ [][NextDirective]_vars

(***************************************************************************)
(* Properties                                                               *)
(***************************************************************************)
\* str::ends_with
ends_with(s, p) ==
    Len(p) <= Len(s) /\ SubSeq(s, Len(s) - Len(p) + 1, Len(s)) = p

\* r is d or a subdomain of d: r ends with d preceded by a '.'.
DomainOrSubdomain(r, d) == r = d \/ ends_with(r, <<".">> \o d)

\* C1: use_in_request_domain(R) returns true only if the cookie's domain D
\* is set and R is D or ends with D preceded by a '.'.
C1_DomainMatchSound ==
    (last.op = "use_in_request_domain" /\ last.result = Ok(TRUE)) =>
        /\ is_some(this.domain)
        /\ DomainOrSubdomain(last.args[1], unwrap(this.domain))

\* C2: whenever the cookie's domain D is set and the request domain R is D
\* or ends with '.' followed by D, use_in_request_domain(R) returns true.
C2_DomainMatchComplete ==
    (/\ last.op = "use_in_request_domain"
     /\ is_some(this.domain)
     /\ DomainOrSubdomain(last.args[1], unwrap(this.domain))) =>
        last.result = Ok(TRUE)

\* The path-match rule with P the cookie path: R starts with P, and R and P
\* have equal length, or P ends with '/', or the character of R after the
\* prefix P is '/'.
PathMatches(r, p) ==
    /\ starts_with(r, p)
    /\ \/ Len(r) = Len(p)
       \/ (p # <<>> /\ p[Len(p)] = "/")
       \/ (Len(r) > Len(p) /\ r[Len(p) + 1] = "/")

\* C3: with P the cookie's path, or '/' when the path is unset,
\* use_in_request_path(R) is true if and only if the path-match rule holds
\* of R and P.
C3_PathMatch ==
    last.op = "use_in_request_path" =>
        (last.result = Ok(TRUE)
            <=> PathMatches(last.args[1],
                            IF is_some(this.path) THEN unwrap(this.path)
                            ELSE <<"/">>))

\* C4: for a cookie whose same-site policy is None, use_in_request returns
\* true if and only if the cookie's domain is set, the request is secure and
\* the path matches; the cookie's own Secure attribute does not decide.
C4_SameSiteNoneNeedsSecureRequest ==
    (last.op = "use_in_request" /\ this.same_site = "None") =>
        (last.result = Ok(TRUE)
            <=> /\ is_some(this.domain)
                /\ last.args[3]
                /\ use_in_request_path(this, last.args[2]) = Ok(TRUE))

C6_StrictExactDomain ==
    (last.op = "use_in_request" /\ this.same_site = "Strict") =>
        /\ last.result = Ok(TRUE) =>
              (is_some(this.domain) /\ last.args[1] = unwrap(this.domain))
        /\ (is_some(this.domain) /\ last.args[1] # unwrap(this.domain)) =>
              last.result = Ok(FALSE)

\* A Strict cookie was asked about a proper subdomain of its domain, on a
\* secure request with a matching path, and does not apply.
C6_Witness ==
    /\ last.op = "use_in_request"
    /\ this.same_site = "Strict"
    /\ is_some(this.domain)
    /\ last.args[1] # unwrap(this.domain)
    /\ use_in_request_domain(this, last.args[1]) = Ok(TRUE)
    /\ use_in_request_path(this, last.args[2]) = Ok(TRUE)
    /\ last.args[3]
    /\ last.result = Ok(FALSE)

\* C7: expire_time() is created + max_age when max_age is set, whatever
\* expires holds; otherwise, when expires is set, that instant when it is at
\* or after the epoch and the creation instant when it is before the epoch;
\* otherwise none, and expired() is then false at every time.
C7_ExpireTime ==
    /\ last.op = "expire_time" =>
          last.result =
             IF is_some(this.max_age)
             THEN Ok(Some(big_add(this.created, unwrap(this.max_age))))
             ELSE IF is_some(this.expires)
             THEN (IF unwrap(this.expires).year >= 1970
                   THEN Ok(Some(timestamp(unwrap(this.expires)).mag))
                   ELSE Ok(Some(this.created)))
             ELSE Ok(None)
    /\ (last.op = "expired" /\ is_none(this.max_age) /\ is_none(this.expires))
          => last.result = Ok(FALSE)

\* C8: every cookie returned by a successful parse has a non-empty name and
\* a non-empty value without surrounding whitespace; a first segment with an
\* empty name or an empty value makes the parse fail.
C8_NameAndValueNonEmpty ==
    (last.op = "from_str" /\ is_ok(last.result)) =>
        /\ last.result.val.name # <<>>
        /\ last.result.val.value # <<>>
        /\ trim(last.result.val.value) = last.result.val.value

\* C9: in every cookie returned by a successful parse, the stored domain, if
\* present, does not begin with '.'.
C9_DomainWithoutLeadingDot ==
    (/\ last.op = "from_str"
     /\ is_ok(last.result)
     /\ is_some(last.result.val.domain)) =>
        ~starts_with(unwrap(last.result.val.domain), <<".">>)

\* C10: parsing a header that is the single token Secure or HttpOnly, with
\* no name/value pair, fails with the error "Cookie has not got name/value",
\* not with the "Malformed HTTP cookie" error of other text without '='.
C10_NoNameValuePair ==
    (/\ last.op = "from_str"
     /\ to_ascii_lowercase(trim(header)) \in {COOKIE_SECURE, COOKIE_HTTP_ONLY}) =>
        /\ is_err(last.result)
        /\ last.result.msg = "Cookie has not got name/value"

\* The keys of the directives the parser knows with a value.
DirectiveKeys ==
    {COOKIE_EXPIRES, COOKIE_MAX_AGE, COOKIE_DOMAIN, COOKIE_PATH,
     COOKIE_SAME_SITE}

\* The header is one segment, key=value, whose key is the key of a directive
\* and whose value that directive does not accept.
DirectiveOnlyInvalid(h) ==
    /\ find(h, ";") = 0
    /\ find(h, "=") # 0
    /\ to_ascii_lowercase(trim(SubSeq(h, 1, find(h, "=") - 1))) \in DirectiveKeys
    /\ is_err(CookieDirective_from_str(h))

\* C11: parsing a header whose only segment is a directive with an invalid
\* value, such as Max-Age=-1200, fails: it is never turned into a cookie
\* whose name is the directive key.
C11_DirectiveOnlyHeaderFails ==
    (last.op = "from_str" /\ DirectiveOnlyInvalid(header)) =>
        is_err(last.result)

\* What the parser of the i-th segment returns for it: parse_cookie_value
\* for the first, CookieDirective::from_str for the others.
segment_result(segments, i) ==
    IF i = 1 THEN parse_cookie_value(segments[1])
    ELSE CookieDirective_from_str(segments[i])

\* The segments that do not parse.
failing_segments(segments) ==
    {i \in 1..Len(segments) : ~is_ok(segment_result(segments, i))}

\* The error of the first of the failing segments.
first_error(segments, failing) == segment_result(segments, Min(failing))

\* The result of from_str is the error of the first failing segment.
ErrorPropagated(segments, failing) ==
    failing # {} =>
        /\ is_err(last.result)
        /\ last.result = first_error(segments, failing)

\* C12: if the name/value segment or a directive segment fails, from_str
\* returns an error and no cookie, and the error is the one of the first
\* failing segment from the left; the segments after it have no influence.
C12_FirstErrorReturned ==
    last.op = "from_str" =>
        ErrorPropagated(split(header, ";"),
                        failing_segments(split(header, ";")))

\* The captures of the date text by the grammar of the parser op.
captures_of(op, date) ==
    IF op = "parse_rfc_1123_date" THEN captures_1123(date)
    ELSE IF op = "parse_rfc_850_date" THEN captures_850(date)
    ELSE captures_asct(date)

\* The day text of the captures is past the last day of their month in the
\* year.
day_out_of_range(caps, year) ==
    ~valid_ymd(year, month_number(caps.month), parse_digits(caps.day))

\* The text has the shape of the grammar of op and names a day that its
\* month does not have.
OutOfRange(op, caps) ==
    /\ is_some(caps)
    /\ day_out_of_range(unwrap(caps),
                        IF op = "parse_rfc_850_date"
                        THEN fix_millenium(parse_digits(unwrap(caps).year))
                        ELSE parse_digits(unwrap(caps).year))

DateParsers ==
    {"parse_rfc_1123_date", "parse_rfc_850_date", "parse_asct_date"}

\* C13: in each of the three date grammars, a text in the shape of the
\* grammar that names a date out of the calendar (31 Feb, day 39) makes the
\* parser return the error value "Invalid date": the parser neither clamps
\* the date nor fails in another way.
C13_OutOfRangeDateIsError ==
    (/\ last.op \in DateParsers
     /\ OutOfRange(last.op, captures_of(last.op, last.args[1]))) =>
        /\ is_err(last.result)
        /\ last.result.msg = "Invalid date"

\* The year rule for the captured year text.
year_rule(text) ==
    IF Len(text) = 2
    THEN (IF parse_digits(text) < 70 THEN 2000 ELSE 1900) + parse_digits(text)
    ELSE parse_digits(text)

\* C14: the RFC-850 parser returns year 2000+YY for a two-digit year YY
\* below 70 and 1900+YY for 70 <= YY < 100, and returns a year written with
\* four digits unchanged.
C14_Rfc850YearRule ==
    (last.op = "parse_rfc_850_date" /\ is_ok(last.result)) =>
        last.result.val.year =
            year_rule(unwrap(captures_850(last.args[1])).year)

\* C15: for every cookie obtained from a successful parse and every request,
\* use_in_request, use_in_request_domain, use_in_request_path and the
\* formatting of the cookie return a result: none of them fails.
C15_MatcherAndSerializerTotal ==
    last.op \in {"use_in_request", "use_in_request_domain",
                 "use_in_request_path", "to_string"} =>
        is_ok(last.result)

\* C16: for a cookie that expired() reports as expired at the time of the
\* call, use_in_request returns false for every request.
C16_ExpiredCookieNotUsed ==
    (last.op = "use_in_request" /\ expired(this, now) = Ok(TRUE)) =>
        last.result = Ok(FALSE)

\* The fields of a cookie that a Set-Cookie value carries.
same_fields(c, d) ==
    /\ c.name = d.name
    /\ c.value = d.value
    /\ c.domain = d.domain
    /\ c.path = d.path
    /\ c.max_age = d.max_age
    /\ (is_none(c.max_age) => c.expires = d.expires)
    /\ c.same_site = d.same_site
    /\ c.secure = d.secure
    /\ c.http_only = d.http_only
    /\ c.extensions = d.extensions

\* Parsing the text gives back the fields of the cookie c.
round_trip(c, parsed) == is_ok(parsed) /\ same_fields(c, parsed.val)

\* C17: parsing the text produced by formatting a cookie succeeds and yields
\* a cookie with the same name, value, domain, path, max-age or expires,
\* same-site policy, secure and http-only flags and extensions.
C17_ParseOfFormatRoundTrip ==
    last.op = "to_string" =>
        round_trip(this, SetCookie_from_str(last.result.val, now))

\* The first position of the text at which the pattern occurs, 0 for none.
index_of(text, pattern) ==
    IF \E i \in 1..Len(text) : slice(text, i, Len(pattern)) = pattern
    THEN Min({i \in 1..Len(text) : slice(text, i, Len(pattern)) = pattern})
    ELSE 0

contains(text, pattern) == index_of(text, pattern) # 0

\* The marks of the fields of a Set-Cookie text, in the order of the fields.
FieldMarks ==
    <<<<","," ","D","o","m","a","i","n","=">>, <<","," ","P","a","t","h","=">>, <<","," ","M","a","x","-","A","g","e","=">>, <<","," ","E","x","p","i","r","e","s","=">>, <<","," ","S","a","m","e","S","i","t","e","=">>,
      <<","," ","S","e","c","u","r","e">>, <<","," ","H","t","t","p","O","n","l","y">>>>

\* The marks present in the text are in the fixed order, and the extensions
\* come after them.
fields_in_order(c, text) ==
    /\ \A i, j \in 1..Len(FieldMarks) :
          (i < j /\ contains(text, FieldMarks[i]) /\ contains(text, FieldMarks[j]))
             => index_of(text, FieldMarks[i]) < index_of(text, FieldMarks[j])
    /\ \A k \in DOMAIN c.extensions : \A i \in 1..Len(FieldMarks) :
          /\ contains(text, fmt_extension(k, c.extensions[k]))
          /\ index_of(text, FieldMarks[i])
                < index_of(text, fmt_extension(k, c.extensions[k]))

\* The fields written are the fields the claim names.
fields_written(c, text) ==
    /\ starts_with(text, c.name \o <<"=">> \o c.value)
    /\ contains(text, <<","," ","D","o","m","a","i","n","=">>) = is_some(c.domain)
    /\ is_some(c.domain) => contains(text, <<","," ","D","o","m","a","i","n","=">> \o unwrap(c.domain))
    /\ contains(text, <<","," ","P","a","t","h","=">>) = is_some(c.path)
    /\ is_some(c.path) => contains(text, <<","," ","P","a","t","h","=">> \o unwrap(c.path))
    /\ contains(text, <<","," ","M","a","x","-","A","g","e","=">>) = is_some(c.max_age)
    /\ is_some(c.max_age) =>
          contains(text, <<","," ","M","a","x","-","A","g","e","=">> \o fmt_u64(unwrap(c.max_age)))
    /\ contains(text, <<","," ","E","x","p","i","r","e","s","=">>) = (is_none(c.max_age) /\ is_some(c.expires))
    /\ ~(contains(text, <<","," ","M","a","x","-","A","g","e","=">>) /\ contains(text, <<","," ","E","x","p","i","r","e","s","=">>))
    /\ contains(text, <<","," ","S","a","m","e","S","i","t","e","=","N","o","n","e">>) = (c.same_site = "None")
    /\ contains(text, <<","," ","S","a","m","e","S","i","t","e","=","S","t","r","i","c","t">>) = (c.same_site = "Strict")
    /\ contains(text, <<","," ","S","a","m","e","S","i","t","e","=">>) = (c.same_site \in {"None", "Strict"})
    /\ contains(text, <<","," ","S","e","c","u","r","e">>) = c.secure
    /\ contains(text, <<","," ","H","t","t","p","O","n","l","y">>) = c.http_only

\* C18: the text of a cookie starts with name=value and lists the present
\* fields in the order Domain, Path, Max-Age or Expires, SameSite, Secure,
\* HttpOnly, extensions; it has at most one of Max-Age and Expires, Max-Age
\* when both are set; SameSite is written only for None and Strict; Secure
\* and HttpOnly are written exactly when their flag is true.
C18_SerializerOutput ==
    last.op = "to_string" =>
        /\ fields_written(this, last.result.val)
        /\ fields_in_order(this, last.result.val)

\* A cookie with Max-Age, Expires and two extensions has been formatted.
C18_Witness ==
    /\ last.op = "to_string"
    /\ is_some(this.max_age)
    /\ is_some(this.expires)
    /\ this.secure
    /\ this.same_site = "Strict"
    /\ Cardinality(DOMAIN this.extensions) = 2

\* The header is one segment with an '='.
PlainPair(h) == find(h, ";") = 0 /\ find(h, "=") # 0

\* The texts before and after the first '='.
name_text(h) == SubSeq(h, 1, find(h, "=") - 1)
value_text(h) == SubSeq(h, find(h, "=") + 1, Len(h))

\* The cookie has the name and the value and nothing else set, and its
\* projection formats to name=value.
OnlyNameAndValue(c, name, value) ==
    /\ c.name = name
    /\ c.value = value
    /\ is_none(c.domain) /\ is_none(c.path)
    /\ is_none(c.expires) /\ is_none(c.max_age)
    /\ c.same_site = "Lax"
    /\ ~c.secure /\ ~c.http_only
    /\ c.extensions = <<>>
    /\ Cookie_fmt(to_cookie(c)) = name \o <<"=">> \o value

\* C19: for every text name=value without ';' whose name and value are not
\* empty once trimmed, the parse succeeds and returns a cookie with the
\* trimmed name and the trimmed value, no domain, path, expires or max-age,
\* same-site Lax, secure and http-only false and no extensions; its
\* projection to_cookie() formats to exactly name=value.
C19_PlainPairParsed ==
    (/\ last.op = "from_str"
     /\ PlainPair(header)
     /\ trim(name_text(header)) # <<>>
     /\ trim(value_text(header)) # <<>>) =>
        /\ is_ok(last.result)
        /\ OnlyNameAndValue(last.result.val, trim(name_text(header)),
                            trim(value_text(header)))

\* A pair with whitespace around its name and its value has been parsed.
C19_Witness ==
    /\ last.op = "from_str"
    /\ PlainPair(header)
    /\ trim(name_text(header)) # name_text(header)
    /\ trim(value_text(header)) # value_text(header)
    /\ trim(value_text(header)) # <<>>
    /\ is_ok(last.result)

\* The statement for every name and value that are not empty as written: a
\* value of whitespace only is one of them.
C19_PlainPairAsWritten ==
    (/\ last.op = "from_str"
     /\ PlainPair(header)
     /\ name_text(header) # <<>>
     /\ value_text(header) # <<>>) =>
        /\ is_ok(last.result)
        /\ OnlyNameAndValue(last.result.val, trim(name_text(header)),
                            trim(value_text(header)))

\* A letter in the other case.
swap_char(c) ==
    IF \E i \in 1..26 : UPPER[i] = c
    THEN LOWER[CHOOSE i \in 1..26 : UPPER[i] = c]
    ELSE IF \E i \in 1..26 : LOWER[i] = c
    THEN UPPER[CHOOSE i \in 1..26 : LOWER[i] = c]
    ELSE c

is_upper(c) == \E i \in 1..26 : UPPER[i] = c
is_lower(c) == \E i \in 1..26 : LOWER[i] = c

swap_case(s) == [i \in 1..Len(s) |-> swap_char(s[i])]
upper_case(s) ==
    [i \in 1..Len(s) |-> IF is_lower(s[i]) THEN swap_char(s[i]) ELSE s[i]]
lower_case(s) ==
    [i \in 1..Len(s) |-> IF is_upper(s[i]) THEN swap_char(s[i]) ELSE s[i]]

\* The text in other letter cases and with whitespace around it.
Recased(t) ==
    {upper_case(t), lower_case(t), swap_case(t),
     <<" ">> \o t \o <<" ">>, <<" ", "\t">> \o upper_case(t)}

\* The text with whitespace around it.
Spaced(t) == {t, <<" ">> \o t \o <<" ">>}

\* The segments that differ from s in the letter case of the key, in the
\* letter case of the value when the key is SameSite, and in surrounding
\* whitespace.
Variants(s) ==
    IF find(s, "=") = 0 THEN Recased(s)
    ELSE {k \o <<"=">> \o v :
             k \in Recased(SubSeq(s, 1, find(s, "=") - 1)),
             v \in IF lower_case(trim(SubSeq(s, 1, find(s, "=") - 1)))
                        = COOKIE_SAME_SITE
                   THEN Recased(SubSeq(s, find(s, "=") + 1, Len(s)))
                   ELSE Spaced(SubSeq(s, find(s, "=") + 1, Len(s)))}

\* The segment is SameSite with a value that is none of strict, lax, none.
BadSameSite(s) ==
    /\ find(s, "=") # 0
    /\ lower_case(trim(SubSeq(s, 1, find(s, "=") - 1))) = COOKIE_SAME_SITE
    /\ trim(SubSeq(s, find(s, "=") + 1, Len(s))) # <<>>
    /\ lower_case(trim(SubSeq(s, find(s, "=") + 1, Len(s))))
          \notin {COOKIE_SAME_SITE_STRICT, COOKIE_SAME_SITE_LAX,
                  COOKIE_SAME_SITE_NONE}

\* C20: changing the letter case of the key of a directive (and, for
\* SameSite, of its value) and adding whitespace around them never changes
\* the result of classifying the segment; a SameSite value that is not
\* strict, lax or none in any letter case is an error.
C20_DirectiveCaseInsensitive ==
    last.op = "CookieDirective::from_str" =>
        /\ \A v \in Variants(last.args[1]) :
              CookieDirective_from_str(v) = last.result
        /\ BadSameSite(last.args[1]) =>
              /\ is_err(last.result)
              /\ last.result.msg = "Invalid SameSite cookie directive value: "

\* A SameSite directive written in upper case has been classified.
C20_Witness ==
    /\ last.op = "CookieDirective::from_str"
    /\ last.args[1] = <<"S","A","M","E","S","I","T","E","="," ","N","O","N","E"," ">>
    /\ last.result = Ok([kind |-> "SameSite", val |-> "None"])

\* The key and the value of a segment with an '=', as the classifier reads
\* them.
key_of(s) == lower_case(trim(SubSeq(s, 1, find(s, "=") - 1)))
value_of(s) == trim(SubSeq(s, find(s, "=") + 1, Len(s)))

\* The number written by a text of digits.
number_of(digits) ==
    big_norm([i \in 1..Len(digits) |-> digit_val(digits[i])])

\* The text is an unsigned integer of the unsigned 64-bit range.
is_u64(text) ==
    /\ text # <<>>
    /\ all_digits(text)
    /\ big_le(number_of(text), U64_MAX)

\* C21: the Max-Age directive accepts exactly the values that are an
\* unsigned integer count of seconds, 0 included, and yields a duration of
\* that many seconds; a negative value, a value with characters that are no
\* digits and a value past the unsigned 64-bit range are errors.
C21_MaxAgeUnsignedInteger ==
    (/\ last.op = "CookieDirective::from_str"
     /\ find(last.args[1], "=") # 0
     /\ key_of(last.args[1]) = COOKIE_MAX_AGE) =>
        IF is_u64(value_of(last.args[1]))
        THEN last.result = Ok([kind |-> "MaxAge",
                               seconds |-> number_of(value_of(last.args[1]))])
        ELSE is_err(last.result)

\* What the claim gives for a segment without '=', d being the segment
\* trimmed and in lower case.
flag_or_extension(d) ==
    IF d = COOKIE_SECURE THEN Ok([kind |-> "Secure"])
    ELSE IF d = COOKIE_HTTP_ONLY THEN Ok([kind |-> "HttpOnly"])
    ELSE Ok([kind |-> "Extension", name |-> d, value |-> None])

\* C22: a segment without '=' is, once trimmed and in lower case, the flag
\* directive for secure and httponly, an error (the directive needs a
\* value) for domain, expires, max-age, path and samesite, and an Extension
\* with that key and no value for every other text; a segment with '='
\* whose value is empty once trimmed is an error for every key.
C22_SegmentWithoutValue ==
    last.op = "CookieDirective::from_str" =>
        /\ (find(last.args[1], "=") = 0
            /\ lower_case(trim(last.args[1])) \in DirectiveKeys) =>
              /\ is_err(last.result)
              /\ last.result.msg = "Directive {} needs a value"
              /\ last.result.arg = lower_case(trim(last.args[1]))
        /\ (find(last.args[1], "=") = 0
            /\ lower_case(trim(last.args[1])) \notin DirectiveKeys) =>
              last.result = flag_or_extension(lower_case(trim(last.args[1])))
        /\ (find(last.args[1], "=") # 0 /\ value_of(last.args[1]) = <<>>) =>
              /\ is_err(last.result)
              /\ last.result.msg = "Directive {} value must not be empty"
              /\ last.result.arg = key_of(last.args[1])

\* The key of a directive that needs a value, with whitespace around it and
\* without '=', has been classified.
C22_Witness ==
    /\ last.op = "CookieDirective::from_str"
    /\ last.args[1] = <<" ", "P", "a", "t", "h", " ">>
    /\ is_err(last.result)

\* The whole text, from its first character to its last, is a date of the
\* grammar of the parser op.
whole_text_is_date(op, t) ==
    IF op = "parse_rfc_1123_date" THEN re_1123_at(t, 1) /\ Len(t) = 29
    ELSE IF op = "parse_rfc_850_date"
    THEN \E w \in WEEKDAY \cup WKD : \E yl \in {4, 2} :
            re_850_at(t, 1, w, yl) /\ Len(t) = Len(w) + 22 + yl
    ELSE \E sp \in {1, 2} : \E dl \in {1, 2} :
            re_asct_at(t, 1, sp, dl) /\ Len(t) = 21 + sp + dl

\* C23: a date parser accepts a text only when the entire text is a date of
\* its grammar; a text with characters before or after a date, such as a
\* numeric offset or a zone other than GMT, gets the error "Invalid date".
C23_WholeTextIsDate ==
    (last.op \in DateParsers /\ ~whole_text_is_date(last.op, last.args[1])) =>
        last.result = ParseError("Invalid date", <<>>)


\* C24: whenever use_in_request returns true, use_in_request_domain returns
\* true for the same cookie and the same request domain, whatever the
\* cookie's same-site policy.
C24_UseInRequestImpliesDomain ==
    (last.op = "use_in_request" /\ last.result = Ok(TRUE)) =>
        use_in_request_domain(this, last.args[1]) = Ok(TRUE)

\* The outcomes a call of expire_time can have in SpecExpire, whenever the
\* call is made: no expiry, a panic, an instant of the clock plus a Max-Age,
\* or the instant of an Expires date.
ExpireTimeOutcomes ==
    {Panic, Ok(None)}
        \cup {Ok(Some(big_add(big_add(ClockStart, big_of(k)), ma))) :
                 k \in 0..MaxTicks, ma \in MaxAges}
        \cup {Ok(Some(timestamp(d).mag)) : d \in ExpiresDates}

\* C25: for a cookie whose fields are not modified, every call of
\* expire_time has the outcome of the calls before it, a Max-Age expiry being
\* the creation instant plus the Max-Age and not the time of the call plus
\* the Max-Age; and, the clock never going back, once expired has returned
\* true it returns true on every later call.
C25_ExpiryStableAndMonotone ==
    /\ [](last.op = "expire_time" =>
            /\ last.result \in ExpireTimeOutcomes
            /\ (is_some(this.max_age) /\ is_ok(last.result)) =>
                  last.result = Ok(Some(big_add(this.created,
                                                unwrap(this.max_age)))))
    /\ \A v \in ExpireTimeOutcomes :
          []((last.op = "expire_time" /\ last.result = v) =>
                [](last.op = "expire_time" => last.result = v))
    /\ []((last.op = "expired" /\ last.result = Ok(TRUE)) =>
             [](last.op = "expired" => last.result = Ok(TRUE)))

\* A cookie with a Max-Age of one second was found expired two seconds after
\* its creation, and the clock has advanced since that call.
C25_Witness ==
    /\ last.op = "expired"
    /\ last.result = Ok(TRUE)
    /\ this.max_age = Some(big_of(1))
    /\ last.args[1] = big_add(this.created, big_of(2))
    /\ now = big_add(this.created, big_of(3))

=============================================================================
